---- MODULE Spec2Model ----
\* Telemetry collector: the per-page capture/segmentation engine
\* (src/chrome-extension/content.js) and the coordinator with its write queue,
\* session store and export consolidation (src/chrome-extension/background.js).
EXTENDS Integers, Sequences, FiniteSets, TLC

\* ---------------------------------------------------------------- bounds
NumTabs == 2          \* tabs known to the coordinator
MaxRecords == 2       \* records captured by page contexts in one behaviour
MaxSegmentId == 2     \* highest segment id a page context is driven to
MaxStarts == 2        \* start_recording commands accepted by one page context
MaxTime == 3000       \* last instant of the clock (ms)
MaxChan == 2          \* messages kept in the page -> coordinator channel
MaxSessions == 2      \* session ids handed out
MaxTasks == 2         \* message handlers of the coordinator in progress at once
MaxQueue == 2         \* operations chained on the write queue at once
MaxInputs == 5        \* messages, crashes and write failures the coordinator is given
MaxControls == 2      \* popup requests given to the coordinator next to running pages
MaxTyped == 1         \* key events captured by a page that runs next to the coordinator
MaxCrashes == 1       \* times the service worker is destroyed
MaxStored == 3        \* length of a stored fragment list handed to the export

\* ------------------------------------------------------- program constants
FLUSH_INTERVAL_MS == 5000
IDLE_THRESHOLD_MS == 3000
SCROLL_THROTTLE_MS == 50
TIMER_PERIOD_MS == 1000     \* setInterval(periodicFlush, 1000), setInterval(checkIdle, 1000)

LOGGABLE_KEYS ==
  { "Backspace", "Delete", "Tab", "Enter", "Escape",
    "ArrowUp", "ArrowDown", "ArrowLeft", "ArrowRight",
    "Home", "End", "PageUp", "PageDown",
    "Insert", "CapsLock", "NumLock", "ScrollLock",
    "ContextMenu", "PrintScreen", "Pause",
    "F1", "F2", "F3", "F4", "F5", "F6",
    "F7", "F8", "F9", "F10", "F11", "F12" }

\* ----------------------------------------------------------- input domains
Tabs == 1..NumTabs
NoSession == 0              \* sessionId = null
NoTime == -1                \* a timestamp that is null
NullKey == "null"           \* key: null
Fields == {"body", "email"}               \* results of _getFieldId(event.target)
\* The key events offered: <<_getFieldId(event.target), event.key>>, with an
\* allow-listed key, a literal character and a modifier.
KeyEvents == { <<"body", "Enter">>, <<"email", "a">>, <<"email", "Shift">> }
TickSteps == {1000}                       \* clock advances offered

VARIABLES
  clock,      \* performance.now() / Date.now(), in ms
  nextId,     \* number of records captured so far (each record gets the next number)
  page,       \* page[t]: the state of the content script of tab t
  toBg,       \* messages sent with chrome.runtime.sendMessage, not yet handled
  sent,       \* sent[t]: what tab t has emitted so far (history, see SentInit)
  bg,         \* the coordinator's in-memory cache
  mirror,     \* chrome.storage.session
  sessions,   \* chrome.storage.local 'sessions'
  writeQueue, \* the operations chained on writeQueue, oldest first
  tasks,      \* the coordinator's message handlers in progress
  localWait,  \* callers awaiting chrome.storage.local, oldest first
  sessionWait,\* callers awaiting chrome.storage.session, oldest first
  toPage,     \* toPage[t]: messages sent with chrome.tabs.sendMessage, not yet handled
  nextUuid,   \* number of session ids handed out
  download,   \* what the last export handed to chrome.downloads.download or replied
  hist        \* history of the coordinator (see HistInit)

pageVars == <<clock, nextId, page, toBg, sent>>

bgVars == <<bg, mirror, sessions, writeQueue, tasks, localWait, sessionWait,
            toPage, nextUuid, download, hist>>

vars == <<pageVars, bgVars>>

\* =====================================================================
\* content.js
\* =====================================================================

NoKeyTimes == [f \in Fields |-> NoTime]

\* State of a content script right after it is injected (content.js 28-50, 346).
PageInit ==
  [ recording |-> FALSE, sessionId |-> NoSession, segmentId |-> 0,
    mouseBuffer |-> <<>>, clickBuffer |-> <<>>,
    keystrokeBuffer |-> <<>>, scrollBuffer |-> <<>>,
    lastMouseEvent |-> FALSE,            \* FALSE: null, TRUE: a position is known
    lastInteractionTime |-> 0,
    lastClickTimestamp |-> NoTime,
    lastKeyTimestampByField |-> NoKeyTimes,
    lastScrollTimestamp |-> NoTime,
    mouseIntervalId |-> FALSE,           \* FALSE: null, TRUE: handle of the newest sampler
    flushIntervalId |-> FALSE,
    idleCheckIntervalId |-> FALSE,
    isIdle |-> FALSE, pageVisible |-> TRUE,
    lastFlushTime |-> 0,
    \* the host's side of the script
    listeners |-> FALSE,                 \* the six capture listeners are attached
    mouseTimers |-> 0,                   \* live setInterval(sampleMousePosition) timers
    flushDue |-> 0, idleDue |-> 0,       \* next firing time of the 1000 ms timers
    hidden |-> FALSE,                    \* document.hidden
    runs |-> 0,                          \* start_recording commands that took effect
    runtime |-> "ok" ]                   \* ok | gone (runtime.id absent) | throws

Empty(c) ==
  /\ c.mouseBuffer = <<>> /\ c.clickBuffer = <<>>
  /\ c.keystrokeBuffer = <<>> /\ c.scrollBuffer = <<>>

\* startNewSegment() without its segmentId++
StartNewSegmentSameId(c) ==
  [c EXCEPT !.mouseBuffer = <<>>, !.clickBuffer = <<>>,
            !.keystrokeBuffer = <<>>, !.scrollBuffer = <<>>,
            !.lastClickTimestamp = NoTime,
            !.lastKeyTimestampByField = NoKeyTimes,
            !.lastScrollTimestamp = NoTime,
            !.mouseIntervalId = TRUE,
            !.mouseTimers = IF c.mouseIntervalId THEN @ ELSE @ + 1]

\* startNewSegment() without lastClickTimestamp = null
StartNewSegmentKeepsClickTime(c) ==
  [c EXCEPT !.segmentId = @ + 1,
            !.mouseBuffer = <<>>, !.clickBuffer = <<>>,
            !.keystrokeBuffer = <<>>, !.scrollBuffer = <<>>,
            !.lastKeyTimestampByField = NoKeyTimes,
            !.lastScrollTimestamp = NoTime,
            !.mouseIntervalId = TRUE,
            !.mouseTimers = IF c.mouseIntervalId THEN @ ELSE @ + 1]

\* startNewSegment(), content.js 117-132
StartNewSegment(c) ==
  [c EXCEPT !.segmentId = @ + 1,
            !.mouseBuffer = <<>>, !.clickBuffer = <<>>,
            !.keystrokeBuffer = <<>>, !.scrollBuffer = <<>>,
            !.lastClickTimestamp = NoTime,
            !.lastKeyTimestampByField = NoKeyTimes,
            !.lastScrollTimestamp = NoTime,
            !.mouseIntervalId = TRUE,
            !.mouseTimers = IF c.mouseIntervalId THEN @ ELSE @ + 1]

\* touchInteraction(), content.js 106-114
TouchInteraction(c, now) ==
  LET c1 == [c EXCEPT !.lastInteractionTime = now]
  IN  IF c1.isIdle THEN StartNewSegment([c1 EXCEPT !.isIdle = FALSE]) ELSE c1

\* The telemetry message flushBuffers() builds, content.js 320-333.
Payload(c, t, isSegmentEnd, now) ==
  [ type |-> "telemetry", tab |-> t, sessionId |-> c.sessionId,
    segmentId |-> c.segmentId, timestamp |-> now, isSegmentEnd |-> isSegmentEnd,
    mouse |-> c.mouseBuffer, clicks |-> c.clickBuffer,
    keystrokes |-> c.keystrokeBuffer, scroll |-> c.scrollBuffer ]

\* buffer.slice(0) in place of buffer.splice(0): the payload is a copy and
\* the buffers keep their records
DrainedKeepsRecords(c) == c

\* buffer.splice(0) on the four buffers: what stays behind, content.js 329-332
Drained(c) ==
  [c EXCEPT !.mouseBuffer = <<>>, !.clickBuffer = <<>>,
            !.keystrokeBuffer = <<>>, !.scrollBuffer = <<>>]

\* The listener removal and timer clearing of stopRecording(), content.js 404-415
StopTail(c) ==
  [c EXCEPT !.listeners = FALSE,
            !.mouseTimers = IF c.mouseIntervalId THEN @ - 1 ELSE @,
            !.mouseIntervalId = FALSE,
            !.flushIntervalId = FALSE,
            !.idleCheckIntervalId = FALSE]

\* A handler's result: the new state, the messages it sent, the payload it built.
Result(c, out, built) == [c |-> c, out |-> out, built |-> built]

RECURSIVE FlushBuffers(_, _, _, _)
RECURSIVE StopRecording(_, _, _)

\* flushBuffers(isSegmentEnd), content.js 312-343
FlushBuffers(c, t, isSegmentEnd, now) ==
  IF ~c.recording \/ c.sessionId = NoSession THEN Result(c, <<>>, <<>>)
  ELSE IF Empty(c) /\ ~isSegmentEnd THEN Result(c, <<>>, <<>>)
  ELSE LET payload == Payload(c, t, isSegmentEnd, now)
           c1 == Drained(c)
       IN  CASE c.runtime = "ok" -> Result(c1, <<payload>>, <<payload>>)
             [] c.runtime = "gone" -> Result(c1, <<>>, <<payload>>)
             [] OTHER -> Result(StopRecording(c1, t, now).c, <<>>, <<payload>>)

\* stopRecording(), content.js 397-416
StopRecording(c, t, now) ==
  IF ~c.recording THEN Result(c, <<>>, <<>>)
  ELSE LET f == FlushBuffers([c EXCEPT !.recording = FALSE], t, TRUE, now)
       IN  Result(StopTail(f.c), f.out, f.built)

\* endCurrentSegment(), content.js 134-143
EndCurrentSegment(c, t, now) ==
  LET f == FlushBuffers(c, t, TRUE, now)
  IN  Result([f.c EXCEPT !.mouseTimers = IF f.c.mouseIntervalId THEN @ - 1 ELSE @,
                         !.mouseIntervalId = FALSE],
             f.out, f.built)

\* The page_meta message of startRecording(), content.js 366-378
PageMeta(c, t, now) ==
  IF c.runtime = "ok"
  THEN << [type |-> "page_meta", tab |-> t, sessionId |-> c.sessionId,
           timestamp |-> now] >>
  ELSE <<>>

\* startRecording(sid), content.js 356-395
StartRecording(c, t, sid, now) ==
  IF c.recording THEN Result(c, <<>>, <<>>)
  ELSE LET c1 == StartNewSegment([c EXCEPT !.sessionId = sid, !.recording = TRUE,
                                           !.isIdle = FALSE, !.segmentId = 0])
           c2 == [c1 EXCEPT !.listeners = TRUE,
                            !.mouseIntervalId = TRUE, !.mouseTimers = @ + 1,
                            !.flushIntervalId = TRUE, !.idleCheckIntervalId = TRUE,
                            !.runs = @ + 1,
                            !.flushDue = now + TIMER_PERIOD_MS,
                            !.idleDue = now + TIMER_PERIOD_MS]
       IN  Result(c2, PageMeta(c1, t, now), <<>>)

\* The content_status reply of the message handler, content.js 424-440
ContentStatus(c, t) ==
  IF c.runtime # "ok" THEN <<>>
  ELSE << [type |-> "content_status", tab |-> t, recording |-> c.recording,
           isIdle |-> c.isIdle, segmentId |-> c.segmentId,
           bufferSizes |-> [mouse |-> Len(c.mouseBuffer), clicks |-> Len(c.clickBuffer),
                            keystrokes |-> Len(c.keystrokeBuffer),
                            scroll |-> Len(c.scrollBuffer)]] >>

\* chrome.runtime.onMessage listener of the content script, content.js 419-441
PageOnMessage(c, t, msg, now) ==
  CASE msg.type = "start_recording" -> StartRecording(c, t, msg.sessionId, now)
    [] msg.type = "stop_recording" -> StopRecording(c, t, now)
    [] msg.type = "get_status" -> Result(c, ContentStatus(c, t), <<>>)
    [] OTHER -> Result(c, <<>>, <<>>)

\* sampleMousePosition() without its check of isIdle
SampleMousePositionWhileIdle(c, id, now) ==
  IF ~c.lastMouseEvent \/ ~c.recording THEN c
  ELSE [c EXCEPT !.mouseBuffer = Append(@, [id |-> id, t |-> now])]

\* sampleMousePosition() without its check of the recording flag
SampleMousePositionUnguarded(c, id, now) ==
  IF ~c.lastMouseEvent \/ c.isIdle THEN c
  ELSE [c EXCEPT !.mouseBuffer = Append(@, [id |-> id, t |-> now])]

\* sampleMousePosition(), content.js 156-166
SampleMousePosition(c, id, now) ==
  IF ~c.lastMouseEvent \/ c.isIdle \/ ~c.recording THEN c
  ELSE [c EXCEPT !.mouseBuffer = Append(@, [id |-> id, t |-> now])]

\* handleMouseMove(event), content.js 146-154
HandleMouseMove(c, now) == TouchInteraction([c EXCEPT !.lastMouseEvent = TRUE], now)

\* handleClick(event), content.js 169-197
HandleClick(c, id, now) ==
  IF ~c.recording THEN c
  ELSE LET c1 == TouchInteraction(c, now)
       IN  IF c1.isIdle THEN c1
           ELSE LET dtSinceLast == IF c1.lastClickTimestamp # NoTime
                                   THEN now - c1.lastClickTimestamp ELSE NoTime
                IN  [c1 EXCEPT !.lastClickTimestamp = now,
                               !.clickBuffer = Append(@, [id |-> id, t |-> now,
                                                         dt_since_last |-> dtSinceLast])]

\* event.key recorded as it is
RawKey(key) == key

\* LOGGABLE_KEYS.has(event.key) ? event.key : null, content.js 227, 245
LoggedKey(key) == IF key \in LOGGABLE_KEYS THEN key ELSE NullKey

\* handleKeyDown(event), content.js 215-236
HandleKeyDown(c, id, fieldId, eventKey, now) ==
  IF ~c.recording THEN c
  ELSE LET c1 == TouchInteraction(c, now)
       IN  IF c1.isIdle THEN c1
           ELSE LET last == c1.lastKeyTimestampByField[fieldId]
                    dt == IF last # NoTime THEN now - last ELSE NoTime
                IN  [c1 EXCEPT !.lastKeyTimestampByField[fieldId] = now,
                               !.keystrokeBuffer =
                                  Append(@, [id |-> id, field |-> fieldId, type |-> "down",
                                             t |-> now, dt_since_last |-> dt,
                                             key |-> LoggedKey(eventKey)])]

\* handleKeyUp(event), content.js 238-253
HandleKeyUp(c, id, fieldId, eventKey, now) ==
  IF ~c.recording THEN c
  ELSE LET c1 == TouchInteraction(c, now)
       IN  IF c1.isIdle THEN c1
           ELSE [c1 EXCEPT !.keystrokeBuffer =
                              Append(@, [id |-> id, field |-> fieldId, type |-> "up",
                                         t |-> now, dt_since_last |-> NoTime,
                                         key |-> LoggedKey(eventKey)])]

\* handleScroll(), content.js 256-284
HandleScroll(c, id, now) ==
  IF ~c.recording THEN c
  ELSE LET c1 == TouchInteraction(c, now)
       IN  IF c1.isIdle THEN c1
           ELSE IF /\ c1.lastScrollTimestamp # NoTime /\ c1.lastScrollTimestamp # 0
                   /\ now - c1.lastScrollTimestamp < SCROLL_THROTTLE_MS
                THEN c1
                ELSE LET dtSinceLast == IF c1.lastScrollTimestamp # NoTime
                                        THEN now - c1.lastScrollTimestamp ELSE NoTime
                     IN  [c1 EXCEPT !.lastScrollTimestamp = now,
                                    !.scrollBuffer = Append(@, [id |-> id, t |-> now,
                                                       dt_since_last |-> dtSinceLast])]

\* handleVisibilityChange(), content.js 287-298
HandleVisibilityChange(c, t, now) ==
  IF c.hidden
  THEN LET c1 == [c EXCEPT !.pageVisible = FALSE]
       IN  IF c1.recording /\ ~c1.isIdle
           THEN EndCurrentSegment([c1 EXCEPT !.isIdle = TRUE], t, now)
           ELSE Result(c1, <<>>, <<>>)
  ELSE Result([c EXCEPT !.pageVisible = TRUE], <<>>, <<>>)

\* checkIdle(), content.js 301-309
CheckIdle(c, t, now) ==
  IF ~c.recording \/ c.isIdle THEN Result(c, <<>>, <<>>)
  ELSE IF now - c.lastInteractionTime >= IDLE_THRESHOLD_MS
       THEN EndCurrentSegment([c EXCEPT !.isIdle = TRUE], t, now)
       ELSE Result(c, <<>>, <<>>)

\* periodicFlush(), content.js 346-353
PeriodicFlush(c, t, now) ==
  IF now - c.lastFlushTime >= FLUSH_INTERVAL_MS
  THEN FlushBuffers([c EXCEPT !.lastFlushTime = now], t, FALSE, now)
  ELSE Result(c, <<>>, <<>>)

\* ---------------------------------------------------------------------
\* The page context as a state machine: one action per callback.
\* ---------------------------------------------------------------------

\* History of the fragments a page context has emitted: the record numbers it
\* has sent, and for the run in progress the number of fragments, the segment id
\* of the newest fragment and of the newest fragment flagged terminal (0: none).
\* records is the total length of the buffers of all fragments sent.
\* seg is the segment id right after the newest interaction handled in the run
\* (0: none yet, or the page is stopped), ends the number of fragments flagged
\* terminal that were emitted since that interaction. clickSeg and clickT are
\* the segment id and the timestamp of the newest click record buffered in the
\* run (0 and null: none yet). metas is the list of the session ids of the
\* page_meta messages sent.
SentInit ==
  [ids |-> {}, records |-> 0, n |-> 0, lastSeg |-> 0, lastEnd |-> 0,
   seg |-> 0, ends |-> 0, clickSeg |-> 0, clickT |-> NoTime, metas |-> <<>>]

Metas(out) ==
  LET pm == SelectSeq(out, LAMBDA m : m.type = "page_meta")
  IN  [i \in DOMAIN pm |-> pm[i].sessionId]

\* The click record a handler that left state c has just buffered, if any: the
\* record numbered nextId + 1.
NewClicks(c) ==
  { c.clickBuffer[i] : i \in { j \in DOMAIN c.clickBuffer : c.clickBuffer[j].id = nextId + 1 } }

Size(m) == Len(m.mouse) + Len(m.clicks) + Len(m.keystrokes) + Len(m.scroll)

RecordIds(m) ==
  {m.mouse[i].id : i \in DOMAIN m.mouse} \cup {m.clicks[i].id : i \in DOMAIN m.clicks}
    \cup {m.keystrokes[i].id : i \in DOMAIN m.keystrokes}
    \cup {m.scroll[i].id : i \in DOMAIN m.scroll}

Fragments(out) == SelectSeq(out, LAMBDA m : m.type = "telemetry")

\* A handler sends at most one fragment (flushBuffers is reached once per handler).
\* touched: the handler was one of the five interaction handlers; c is the
\* state it left.
Sent(h, newRun, out, touched, c) ==
  LET hm == [h EXCEPT !.metas = @ \o Metas(out)]
      h00 == IF newRun THEN [hm EXCEPT !.n = 0, !.lastSeg = 0, !.lastEnd = 0,
                                       !.clickSeg = 0, !.clickT = NoTime] ELSE hm
      h0 == IF NewClicks(c) = {} THEN h00
            ELSE [h00 EXCEPT !.clickSeg = c.segmentId,
                             !.clickT = (CHOOSE r \in NewClicks(c) : TRUE).t]
      h1 == IF ~c.recording \/ newRun THEN [h0 EXCEPT !.seg = 0, !.ends = 0]
            ELSE IF touched THEN [h0 EXCEPT !.seg = c.segmentId, !.ends = 0]
            ELSE h0
      fr == Fragments(out)
  IN  IF fr = <<>> THEN h1
      ELSE [h1 EXCEPT !.ids = @ \cup RecordIds(fr[1]),
                      !.records = @ + Size(fr[1]), !.n = @ + 1,
                      !.lastSeg = fr[1].segmentId,
                      !.lastEnd = IF fr[1].isSegmentEnd THEN fr[1].segmentId ELSE @,
                      !.ends = IF fr[1].isSegmentEnd /\ h1.seg # 0 THEN @ + 1 ELSE @]

\* Effect of a handler of tab t: its new state and the messages it sent.
\* wired: the coordinator is part of the specification, so the messages are
\* queued for it; otherwise they leave the specification as they are sent.
Effect(t, r, wired, touched) ==
  /\ wired => Len(toBg) + Len(r.out) <= MaxChan
  /\ page' = [page EXCEPT ![t] = r.c]
  /\ toBg' = IF wired THEN toBg \o r.out ELSE toBg
  /\ sent' = [sent EXCEPT ![t] = Sent(@, r.c.runs # page[t].runs, r.out, touched, r.c)]

\* Effect of a handler that is not an interaction handler.
Apply(t, r, wired) == Effect(t, r, wired, FALSE)

\* A capture handler ran with record number nextId + 1 at hand.
Capture(t, c, wired, touched) ==
  LET id == nextId + 1
      took == \/ \E i \in DOMAIN c.mouseBuffer : c.mouseBuffer[i].id = id
              \/ \E i \in DOMAIN c.clickBuffer : c.clickBuffer[i].id = id
              \/ \E i \in DOMAIN c.keystrokeBuffer : c.keystrokeBuffer[i].id = id
              \/ \E i \in DOMAIN c.scrollBuffer : c.scrollBuffer[i].id = id
  IN  /\ nextId' = IF took THEN id ELSE nextId
      /\ Effect(t, Result(c, <<>>, <<>>), wired, touched)
      /\ UNCHANGED <<clock, bgVars>>

\* The interaction would not push the segment id past the bound.
CanWake(c) == ~c.isIdle \/ c.segmentId < MaxSegmentId

\* The content script of tab t handles a message from the coordinator; an
\* invalidated extension context receives none.
PageReceives(t, msg, wired) ==
  /\ page[t].runtime = "ok"
  /\ Apply(t, PageOnMessage(page[t], t, msg, clock), wired)
  /\ UNCHANGED <<clock, nextId, bgVars>>

MouseMove(t, wired) ==
  /\ page[t].listeners /\ CanWake(page[t])
  /\ Effect(t, Result(HandleMouseMove(page[t], clock), <<>>, <<>>), wired, TRUE)
  /\ UNCHANGED <<clock, nextId, bgVars>>

MouseSample(t, wired) ==
  /\ page[t].mouseTimers > 0 /\ nextId < MaxRecords
  /\ Capture(t, SampleMousePosition(page[t], nextId + 1, clock), wired, FALSE)

Click(t, wired) ==
  /\ page[t].listeners /\ CanWake(page[t]) /\ nextId < MaxRecords
  /\ Capture(t, HandleClick(page[t], nextId + 1, clock), wired, TRUE)

KeyDown(t, wired) ==
  /\ page[t].listeners /\ CanWake(page[t]) /\ nextId < MaxRecords
  /\ \E e \in KeyEvents :
        Capture(t, HandleKeyDown(page[t], nextId + 1, e[1], e[2], clock), wired, TRUE)

KeyUp(t, wired) ==
  /\ page[t].listeners /\ CanWake(page[t]) /\ nextId < MaxRecords
  /\ \E e \in KeyEvents :
        Capture(t, HandleKeyUp(page[t], nextId + 1, e[1], e[2], clock), wired, TRUE)

Scroll(t, wired) ==
  /\ page[t].listeners /\ CanWake(page[t]) /\ nextId < MaxRecords
  /\ Capture(t, HandleScroll(page[t], nextId + 1, clock), wired, TRUE)

\* document.hidden flips; the handler runs if it is attached.
VisibilityChange(t, wired) ==
  LET c == [page[t] EXCEPT !.hidden = ~@]
  IN  /\ Apply(t, IF c.listeners THEN HandleVisibilityChange(c, t, clock)
                  ELSE Result(c, <<>>, <<>>), wired)
      /\ UNCHANGED <<clock, nextId, bgVars>>

FlushTimer(t, wired) ==
  /\ page[t].flushIntervalId /\ page[t].flushDue = clock
  /\ Apply(t, PeriodicFlush([page[t] EXCEPT !.flushDue = @ + TIMER_PERIOD_MS], t, clock),
           wired)
  /\ UNCHANGED <<clock, nextId, bgVars>>

\* The idle check was scheduled after the flush timer with the same period:
\* at an instant where both are due the flush timer runs first.
IdleTimer(t, wired) ==
  /\ page[t].idleCheckIntervalId /\ page[t].idleDue = clock
  /\ ~(page[t].flushIntervalId /\ page[t].flushDue = clock)
  /\ Apply(t, CheckIdle([page[t] EXCEPT !.idleDue = @ + TIMER_PERIOD_MS], t, clock),
           wired)
  /\ UNCHANGED <<clock, nextId, bgVars>>

\* The extension is reloaded or removed under a page that is recording (a
\* stopped context has no listener and no timer left that sends anything).
Invalidate(t) ==
  /\ page[t].runtime = "ok" /\ page[t].recording
  /\ \E r \in {"gone", "throws"} : page' = [page EXCEPT ![t].runtime = r]
  /\ UNCHANGED <<clock, nextId, toBg, sent, bgVars>>

\* Time passes by d ms, never beyond a timer that is due or the last instant.
Advance(d, last) ==
  /\ clock + d <= last
  /\ \A t \in Tabs :
        /\ page[t].flushIntervalId => clock + d <= page[t].flushDue
        /\ page[t].idleCheckIntervalId => clock + d <= page[t].idleDue
  /\ clock' = clock + d
  /\ UNCHANGED <<nextId, page, toBg, sent, bgVars>>

Tick == \E d \in TickSteps : Advance(d, MaxTime)

PageStep(t, wired) ==
  \/ MouseMove(t, wired) \/ MouseSample(t, wired) \/ Click(t, wired)
  \/ KeyDown(t, wired) \/ KeyUp(t, wired) \/ Scroll(t, wired)
  \/ VisibilityChange(t, wired) \/ FlushTimer(t, wired) \/ IdleTimer(t, wired)
  \/ Invalidate(t)

\* =====================================================================
\* background.js
\* =====================================================================

ZeroTotals == [mouse |-> 0, clicks |-> 0, keystrokes |-> 0, scroll |-> 0]
NoCount == -1               \* segmentCount absent from chrome.storage.session

\* In-memory cache of a service worker that has just been loaded, background.js 13-17
BgInit ==
  [ sessionId |-> NoSession, recording |-> FALSE, totalEvents |-> ZeroTotals,
    segmentCount |-> 0, stateRestored |-> FALSE ]

\* chrome.storage.session before anything is written to it
MirrorInit ==
  [ sessionId |-> NoSession, recording |-> FALSE, hasTotals |-> FALSE,
    totalEvents |-> ZeroTotals, segmentCount |-> NoCount ]

\* A handler slot that runs nothing
FreeTask == [pc |-> "free"]

\* What is remembered of the past for the properties:
\*   accepted[s]  timestamps of the fragments with records that storeTelemetry
\*                took while s was the session in memory, in order
\*   inputs       messages, crashes and write failures given by the environment
\*   failed       a chrome.storage.local.set has been rejected
\*   cleared      clear-data has been requested
\*   contended    a fragment was enqueued while the write of another fragment
\*                had not finished
\*   crashes      times the process was destroyed
\*   preCrash     memory of the process destroyed last
\*   clear        "pending": clear-data was requested while no begin-recording
\*                was in progress, "done": it has completed, and in both cases
\*                neither a fragment, a page-metadata message nor a
\*                begin-recording request came after the request and the
\*                process was not destroyed; "no" otherwise
\*   clearBy      the handler slot of the clear-data that clear speaks of
\*   quiet        when the process was destroyed last no handler was in
\*                progress and the write queue was empty
HistInit ==
  [ accepted |-> [s \in 1..MaxSessions |-> <<>>], inputs |-> 0, failed |-> FALSE,
    cleared |-> FALSE, contended |-> FALSE, crashes |-> 0, preCrash |-> BgInit,
    clear |-> "no", clearBy |-> 0, quiet |-> FALSE ]

\* Nothing has been exported yet
NoDownload == [success |-> FALSE, error |-> "none"]

\* The state of the coordinator and of what it talks to, as one record:
\*   bg        the in-memory cache (background.js 13-17)
\*   mirror    chrome.storage.session
\*   sessions  chrome.storage.local 'sessions': session id -> session
\*   q         the operations chained on writeQueue that have not finished
\*   tasks     the message handlers in progress
\*   lw, sw    who waits for chrome.storage.local / chrome.storage.session, in
\*             the order of the calls (each area answers in that order)
\*   toPage    toPage[t]: messages sent with chrome.tabs.sendMessage to tab t
\*   uuid      number of session ids handed out by uuidv4()
\*   dl        the outcome of the last export
\*   hist      see HistInit
Cur ==
  [ bg |-> bg, mirror |-> mirror, sessions |-> sessions, q |-> writeQueue,
    tasks |-> tasks, lw |-> localWait, sw |-> sessionWait, toPage |-> toPage,
    uuid |-> nextUuid, dl |-> download, hist |-> hist ]

Set(n) ==
  /\ bg' = n.bg /\ mirror' = n.mirror /\ sessions' = n.sessions
  /\ writeQueue' = n.q /\ tasks' = n.tasks /\ localWait' = n.lw
  /\ sessionWait' = n.sw /\ toPage' = n.toPage /\ nextUuid' = n.uuid
  /\ download' = n.dl /\ hist' = n.hist

\* The bounds of the model hold in n.
Bounded(n) ==
  /\ Len(n.q) <= MaxQueue
  /\ n.uuid <= MaxSessions
  /\ n.hist.inputs <= MaxInputs
  /\ \A t \in Tabs : Len(n.toPage[t]) <= MaxChan
  /\ \A x \in DOMAIN n.bg.totalEvents : n.bg.totalEvents[x] <= MaxRecords

Free(s, k) == [s EXCEPT !.tasks[k] = FreeTask]

HasData(m) ==
  Len(m.mouse) # 0 \/ Len(m.clicks) # 0 \/ Len(m.keystrokes) # 0 \/ Len(m.scroll) # 0

\* The segment object storeTelemetry builds from a message, background.js 131-142
Segment(data) ==
  [ segmentId |-> data.segmentId, tabId |-> data.tab, timestamp |-> data.timestamp,
    isSegmentEnd |-> data.isSegmentEnd, mouse |-> data.mouse, clicks |-> data.clicks,
    keystrokes |-> data.keystrokes, scroll |-> data.scroll ]

\* An id for a new operation of the queue: the smallest one not in use.
FreshOp(q) == CHOOSE i \in 1..(Len(q) + 1) : \A j \in DOMAIN q : q[j].id # i

\* enqueueWrite(fn), background.js 22-27: fn is chained behind the operations
\* enqueued before it. waiter: the handler slot that awaits the returned promise.
\* carried: the session id of the message fn was made for (fn does not use it).
EnqueueWrite(s, op, waiter) ==
  [s EXCEPT !.q = Append(@, [kind |-> op.kind, data |-> op.data, id |-> FreshOp(s.q),
                             pc |-> "queued", snap |-> <<>>, waiter |-> waiter,
                             carried |-> op.carried])]

\* fn() called at once in place of writeQueue.then(fn): an operation starts
\* whatever is still in progress
Unchained(q, i) == TRUE

\* fn chained on nothing: the operation enqueued last starts at once
NewestFirst(q, i) == i = Len(q)

\* writeQueue.then(fn), background.js 23: operation i of the queue starts only
\* when every operation enqueued before it has finished.
Chained(q, i) == i = 1

\* storeTelemetry(data), background.js 122-162 (up to the enqueueWrite call)
StoreTelemetry(s, data) ==
  IF ~s.bg.recording \/ s.bg.sessionId = NoSession THEN s
  ELSE LET counted ==
             [s EXCEPT !.bg.totalEvents =
                [ mouse |-> @.mouse + Len(data.mouse),
                  clicks |-> @.clicks + Len(data.clicks),
                  keystrokes |-> @.keystrokes + Len(data.keystrokes),
                  scroll |-> @.scroll + Len(data.scroll) ]]
       IN  IF ~HasData(data) THEN counted
           ELSE EnqueueWrite(
                  [counted EXCEPT !.hist.accepted[s.bg.sessionId] =
                                     Append(@, data.timestamp),
                                  !.hist.contended =
                                     @ \/ \E i \in DOMAIN s.q : s.q[i].kind = "segment"],
                  [kind |-> "segment", data |-> Segment(data),
                   carried |-> data.sessionId], 0)

\* storePageMeta(data), background.js 164-184 (up to the enqueueWrite call)
StorePageMeta(s, data) ==
  IF ~s.bg.recording \/ s.bg.sessionId = NoSession THEN s
  ELSE EnqueueWrite(s, [kind |-> "meta",
                        data |-> [tabId |-> data.tab, timestamp |-> data.timestamp],
                        carried |-> data.sessionId], 0)

\* restoreState() once chrome.storage.session.get has answered with snap,
\* background.js 45-50
RestoreState(b, snap) ==
  [ sessionId |-> IF snap.sessionId # NoSession THEN snap.sessionId ELSE b.sessionId,
    recording |-> IF snap.recording THEN snap.recording ELSE b.recording,
    totalEvents |-> IF snap.hasTotals THEN snap.totalEvents ELSE b.totalEvents,
    segmentCount |-> IF snap.segmentCount # NoCount THEN snap.segmentCount
                     ELSE b.segmentCount,
    stateRestored |-> TRUE ]

\* persistCounters(), background.js 35-37: the call of chrome.storage.session.set
PersistCounters(s) ==
  [s EXCEPT !.mirror.hasTotals = TRUE, !.mirror.totalEvents = s.bg.totalEvents,
            !.mirror.segmentCount = s.bg.segmentCount]

\* startNewSession() up to its first await, background.js 58-67
StartNewSession(s, k) ==
  LET id == s.uuid + 1
      b == [s.bg EXCEPT !.sessionId = id, !.totalEvents = ZeroTotals, !.segmentCount = 0]
  IN  [s EXCEPT !.uuid = id, !.bg = b,
                !.mirror = [sessionId |-> id, recording |-> TRUE, hasTotals |-> TRUE,
                            totalEvents |-> ZeroTotals, segmentCount |-> 0],
                !.tasks[k] = [pc |-> "start_set"], !.sw = Append(@, <<"task", k>>)]

\* startRecording() without its `if (recording) return`
BgStartRecordingUnguarded(s, k) == StartNewSession(s, k)

\* startRecording() up to its first await on storage, background.js 85-89
BgStartRecording(s, k) ==
  IF s.bg.recording THEN Free(s, k) ELSE StartNewSession(s, k)

\* stopRecording() up to its first await, background.js 104-108
BgStopRecording(s, k) ==
  IF ~s.bg.recording THEN Free(s, k)
  ELSE [s EXCEPT !.bg.recording = FALSE, !.mirror.recording = FALSE,
                 !.tasks[k] = [pc |-> "stop_set"], !.sw = Append(@, <<"task", k>>)]

\* clearData() up to its first await, background.js 263-264
ClearData(s, k) ==
  [s EXCEPT !.sessions = <<>>, !.hist.cleared = TRUE,
            !.hist.clear =
               IF \E j \in DOMAIN s.tasks : s.tasks[j].pc \in {"start_set", "start_write"}
               THEN "no" ELSE "pending",
            !.hist.clearBy = k,
            !.tasks[k] = [pc |-> "clear_remove"], !.lw = Append(@, <<"task", k>>)]

\* exportData() up to its first await, background.js 187-188
ExportRequest(s, k) ==
  [s EXCEPT !.tasks[k] = [pc |-> "export_get", snap |-> s.sessions],
            !.lw = Append(@, <<"task", k>>)]

\* The content_ready case of the message handler, background.js 287-293
ContentReady(s, k, tabId) ==
  Free(IF s.bg.recording /\ s.bg.sessionId # NoSession
       THEN [s EXCEPT !.toPage[tabId] =
               Append(@, [type |-> "start_recording", sessionId |-> s.bg.sessionId,
                          from |-> 0])]
       ELSE s, k)

\* The switch of the message handler, background.js 277-320, run by slot k on a
\* state that has been restored.
Dispatch(s, k, msg) ==
  CASE msg.type = "telemetry" ->
         Free(StoreTelemetry([s EXCEPT !.hist.clear = "no"], msg), k)
    [] msg.type = "page_meta" ->
         Free(StorePageMeta([s EXCEPT !.hist.clear = "no"], msg), k)
    [] msg.type = "content_ready" -> ContentReady(s, k, msg.tab)
    [] msg.type = "popup_get_status" -> Free(s, k)
    [] msg.type = "popup_start" ->
         BgStartRecording([s EXCEPT !.hist.clear = "no"], k)
    [] msg.type = "popup_stop" -> BgStopRecording(s, k)
    [] msg.type = "popup_export" -> ExportRequest(s, k)
    [] msg.type = "popup_clear" -> ClearData(s, k)
    [] OTHER -> Free(s, k)

\* The reply to popup_get_status, background.js 295-301
StatusReply(b) ==
  [ recording |-> b.recording, sessionId |-> b.sessionId,
    totalEvents |-> b.totalEvents, segmentCount |-> b.segmentCount ]

\* The listener of chrome.runtime.onMessage up to its first await,
\* background.js 271-275: restoreState() returns at once when the state has been
\* restored, and calls chrome.storage.session.get otherwise.
OnMessage(s, k, msg) ==
  IF s.bg.stateRestored THEN Dispatch(s, k, msg)
  ELSE [s EXCEPT !.tasks[k] = [pc |-> "restore", msg |-> msg, snap |-> s.mirror],
                 !.sw = Append(@, <<"task", k>>)]

\* The loop over the tabs of startRecording / stopRecording, background.js
\* 94-101 and 111-118: slot k sends its message to tab i and awaits the answer.
SendToTab(s, k, i, out) ==
  [s EXCEPT !.toPage[i] = Append(@, [out EXCEPT !.from = k]),
            !.tasks[k] = [pc |-> "send", tab |-> i, out |-> out]]

\* The test of exportData that continues the consolidated segment cur with
\* fragment seg, with ids compared by order
SameSegmentOrOlder(cur, seg) == cur.segmentId >= seg.segmentId

\* The test of exportData that continues the consolidated segment cur with
\* fragment seg, background.js 203
SameSegment(cur, seg) == cur.segmentId = seg.segmentId

\* The loop of exportData over the stored fragments of one session from place i
\* on, background.js 199-225: cur is <<currentSeg>>, or <<>> for null.
RECURSIVE Consolidate(_, _, _, _)
Consolidate(segs, i, cur, merged) ==
  IF i > Len(segs) THEN merged \o cur
  ELSE LET seg == segs[i]
       IN  IF cur # <<>> /\ SameSegment(cur[1], seg)
           THEN Consolidate(segs, i + 1,
                  << [cur[1] EXCEPT !.mouse = @ \o seg.mouse,
                                    !.clicks = @ \o seg.clicks,
                                    !.keystrokes = @ \o seg.keystrokes,
                                    !.scroll = @ \o seg.scroll,
                                    !.endTime = seg.timestamp] >>,
                  merged)
           ELSE Consolidate(segs, i + 1,
                  << [ segmentId |-> seg.segmentId, tabId |-> seg.tabId,
                       startTime |-> seg.timestamp, endTime |-> seg.timestamp,
                       mouse |-> seg.mouse, clicks |-> seg.clicks,
                       keystrokes |-> seg.keystrokes, scroll |-> seg.scroll ] >>,
                  merged \o cur)

\* exportData() on the sessions map its chrome.storage.local.get returned,
\* background.js 189-257: the 'no data' reply, or the object that is encoded
\* and handed to chrome.downloads.download.
ExportData(stored) ==
  IF DOMAIN stored = {} THEN [success |-> FALSE, error |-> "No data to export"]
  ELSE [ success |-> TRUE,
         data |-> [sid \in DOMAIN stored |->
                     LET mergedSegments == Consolidate(stored[sid].segments, 1, <<>>, <<>>)
                     IN  [ sessionId |-> sid, pageMeta |-> stored[sid].pageMeta,
                           totalSegments |-> Len(mergedSegments),
                           segments |-> mergedSegments ]] ]

\* The operation at place i of the queue has finished (its promise is settled);
\* startNewSession, which awaited it, returns sessionId and startRecording goes
\* on to chrome.tabs.query, background.js 81 and 89-93.
FinishOp(s, i) ==
  LET op == s.q[i]
      rest == SubSeq(s.q, 1, i - 1) \o SubSeq(s.q, i + 1, Len(s.q))
      s1 == [s EXCEPT !.q = rest]
  IN  IF op.waiter = 0 THEN s1
      ELSE [s1 EXCEPT !.bg.recording = TRUE,
                      !.tasks[op.waiter] =
                         [pc |-> "query",
                          out |-> [type |-> "start_recording",
                                   sessionId |-> s.bg.sessionId, from |-> 0]]]

OpAt(q, id) == CHOOSE i \in DOMAIN q : q[i].id = id

\* writeQueue.then(fn) without .catch: the rejection stays in writeQueue and
\* nothing chained behind it runs
Uncaught(s, i) == s

\* .catch(err => console.error(...)), background.js 23-25: the rejection of the
\* operation at place i is logged and its promise is fulfilled.
Caught(s, i) == FinishOp(s, i)

\* The function chained by startNewSession, storeTelemetry or storePageMeta
\* after its chrome.storage.local.get has answered, in a process whose session id
\* is s.bg.sessionId: the sessions map it writes back, or <<>> if it returns
\* without writing. background.js 71-78, 150-159, 168-182
WriteBack(op, sessionId) ==
  LET snap == op.snap
      known == sessionId \in DOMAIN snap
  IN  CASE op.kind = "create" ->
             << [s \in DOMAIN snap \cup {sessionId} |->
                   IF s = sessionId THEN [segments |-> <<>>, pageMeta |-> <<>>]
                   ELSE snap[s]] >>
        [] op.kind = "segment" /\ known ->
             << [snap EXCEPT ![sessionId].segments = Append(@, op.data)] >>
        [] op.kind = "meta" /\ known ->
             << [snap EXCEPT ![sessionId].pageMeta = Append(@, op.data)] >>
        [] OTHER -> <<>>

\* An operation of the queue goes on after the storage call it awaited.
\* fails: the chrome.storage.local.set it makes now is rejected.
ContinueOp(s, id, fails) ==
  LET i == OpAt(s.q, id)
      op == s.q[i]
  IN  CASE op.pc = "get" ->
             LET w == WriteBack(op, s.bg.sessionId)
             IN  IF w = <<>> THEN FinishOp(s, i)
                 ELSE [s EXCEPT
                         !.bg.segmentCount =
                            IF op.kind = "segment"
                            THEN Len(w[1][s.bg.sessionId].segments) ELSE @,
                         !.sessions = IF fails THEN @ ELSE w[1],
                         !.hist.failed = @ \/ fails,
                         !.q[i].pc = IF fails THEN "rejected" ELSE "set",
                         !.q[i].snap = <<>>,
                         !.lw = Append(@, <<"op", id>>)]
        [] op.pc = "set" /\ op.kind = "segment" ->
             [PersistCounters(s) EXCEPT !.q[i].pc = "persist",
                                        !.sw = Append(@, <<"op", id>>)]
        [] op.pc = "rejected" -> Caught(s, i)
        [] OTHER -> FinishOp(s, i)

\* A handler goes on after the storage call it awaited.
ContinueTask(s, k) ==
  LET task == s.tasks[k]
  IN  CASE task.pc = "restore" ->
             Dispatch([s EXCEPT !.bg = RestoreState(s.bg, task.snap)], k, task.msg)
        [] task.pc = "start_set" ->
             \* startNewSession, background.js 70-79
             EnqueueWrite([s EXCEPT !.tasks[k] = [pc |-> "start_write"]],
                          [kind |-> "create", data |-> <<>>, carried |-> NoSession], k)
        [] task.pc = "stop_set" ->
             \* stopRecording, background.js 110
             [s EXCEPT !.tasks[k] = [pc |-> "query",
                                     out |-> [type |-> "stop_recording", from |-> 0]]]
        [] task.pc = "clear_remove" ->
             \* clearData, background.js 265-267
             [PersistCounters([s EXCEPT !.bg.totalEvents = ZeroTotals,
                                        !.bg.segmentCount = 0])
                EXCEPT !.tasks[k] = [pc |-> "clear_persist"],
                       !.sw = Append(@, <<"task", k>>)]
        [] task.pc = "clear_persist" ->
             Free([s EXCEPT !.hist.clear =
                              IF @ = "pending" /\ s.hist.clearBy = k THEN "done" ELSE @], k)
        [] task.pc = "export_get" ->
             Free([s EXCEPT !.dl = ExportData(task.snap)], k)
        [] OTHER -> Free(s, k)

Continue(s, tag, fails) ==
  IF tag[1] = "task" THEN ContinueTask(s, tag[2]) ELSE ContinueOp(s, tag[2], fails)

\* The service worker is destroyed and loaded again: memory, handlers and the
\* promise chain are gone, storage and the messages already sent stay, and the
\* new process calls restoreState(), background.js 54.
Restart(s) ==
  [s EXCEPT !.bg = BgInit,
            !.q = <<>>, !.lw = <<>>,
            !.tasks = [k \in 1..MaxTasks |->
                         IF k = 1 THEN [pc |-> "restore", msg |-> [type |-> "boot"],
                                        snap |-> s.mirror]
                         ELSE FreeTask],
            !.sw = << <<"task", 1>> >>,
            !.toPage = [t \in Tabs |->
                          [j \in DOMAIN s.toPage[t] |-> [s.toPage[t][j] EXCEPT !.from = 0]]],
            !.hist.crashes = @ + 1, !.hist.inputs = @ + 1, !.hist.preCrash = s.bg,
            !.hist.clear = "no",
            !.hist.quiet = (s.q = <<>> /\ \A k \in DOMAIN s.tasks : s.tasks[k].pc = "free")]

\* ---------------------------------------------------------------------
\* The coordinator as a state machine
\* ---------------------------------------------------------------------

\* A message arrives at the service worker. cost: what it takes from the
\* inputs the environment may give.
BgReceives(msg, cost) ==
  \E k \in 1..MaxTasks :
    /\ tasks[k].pc = "free"
    /\ \A j \in 1..(k - 1) : tasks[j].pc # "free"
    /\ LET n == OnMessage([Cur EXCEPT !.hist.inputs = @ + cost], k, msg)
       IN  Bounded(n) /\ Set(n)

\* An operation of the write queue starts: it calls chrome.storage.local.get.
StartWrite ==
  \E i \in DOMAIN writeQueue :
    /\ Chained(writeQueue, i)
    /\ writeQueue[i].pc = "queued"
    /\ Set([Cur EXCEPT !.q[i].pc = "get", !.q[i].snap = sessions,
                       !.lw = Append(@, <<"op", writeQueue[i].id>>)])
    /\ UNCHANGED pageVars

\* chrome.storage.local answers its oldest call.
LocalAnswers ==
  /\ localWait # <<>>
  /\ \E fails \in BOOLEAN :
       /\ fails => ~hist.failed
       /\ LET n == Continue([Cur EXCEPT !.lw = Tail(@),
                                        !.hist.inputs = IF fails THEN @ + 1 ELSE @],
                            Head(localWait), fails)
          IN  /\ fails => n.hist.failed
              /\ Bounded(n) /\ Set(n)
  /\ UNCHANGED pageVars

\* chrome.storage.session answers its oldest call.
SessionAnswers ==
  /\ sessionWait # <<>>
  /\ LET n == Continue([Cur EXCEPT !.sw = Tail(@)], Head(sessionWait), FALSE)
     IN  Bounded(n) /\ Set(n)
  /\ UNCHANGED pageVars

\* chrome.tabs.query answers, or the tab a message was sent to has handled it:
\* the loop over the tabs sends to the next tab, or ends.
TabsAnswer ==
  \E k \in 1..MaxTasks :
    LET task == tasks[k]
        n == CASE task.pc = "query" -> SendToTab(Cur, k, 1, task.out)
               [] task.pc = "send" /\ task.tab < NumTabs ->
                    SendToTab(Cur, k, task.tab + 1, task.out)
               [] OTHER -> Free(Cur, k)
    IN  /\ task.pc \in {"query", "send"}
        /\ task.pc = "send" =>
              \A j \in DOMAIN toPage[task.tab] : toPage[task.tab][j].from # k
        /\ Bounded(n) /\ Set(n)
        /\ UNCHANGED pageVars

\* The service worker is destroyed and recreated.
Crash ==
  /\ hist.crashes < MaxCrashes /\ hist.inputs < MaxInputs
  /\ Set(Restart(Cur))
  /\ UNCHANGED pageVars

\* A service worker loaded for the first time: restoreState() is in progress.
BgInitState ==
  /\ bg = BgInit /\ mirror = MirrorInit /\ sessions = <<>>
  /\ writeQueue = <<>>
  /\ tasks = [k \in 1..MaxTasks |->
                IF k = 1 THEN [pc |-> "restore", msg |-> [type |-> "boot"],
                               snap |-> MirrorInit]
                ELSE FreeTask]
  /\ localWait = <<>> /\ sessionWait = << <<"task", 1>> >>
  /\ toPage = [t \in Tabs |-> <<>>]
  /\ nextUuid = 0
  /\ download = NoDownload
  /\ hist = HistInit

\* ---------------------------------------------------------------------
\* SpecPage: one page context driven by its host and by control messages.
\* The content script was injected LoadAge ms before the first instant, and
\* nothing has happened to it since.
\* ---------------------------------------------------------------------
LoadAges == {0, 5000}

PageLoaded(age) ==
  [PageInit EXCEPT !.lastInteractionTime = 0 - age, !.lastFlushTime = 0 - age]

PageInitState ==
  /\ clock = 0 /\ nextId = 0
  /\ \E age \in LoadAges : page = [t \in Tabs |-> PageLoaded(age)]
  /\ toBg = <<>>
  /\ sent = [t \in Tabs |-> SentInit]
  /\ BgInitState

\* The control messages the coordinator can send: each begin-recording comes
\* with the id of a new session.
EnvControl(t, wired) ==
  \/ /\ page[t].runs < MaxStarts
     /\ PageReceives(t, [type |-> "start_recording", sessionId |-> page[t].runs + 1], wired)
  \/ PageReceives(t, [type |-> "stop_recording"], wired)
  \/ PageReceives(t, [type |-> "get_status"], wired)

NextPage == PageStep(1, FALSE) \/ EnvControl(1, FALSE) \/ Tick

SpecPage == PageInitState /\ [][NextPage]_vars

\* ---------------------------------------------------------------------
\* SpecIdle: one page context with the clock advancing in steps finer than
\* the period of its timers, so that clicks and commands fall between two
\* firings of the idle check.
\* ---------------------------------------------------------------------
FineSteps == {250}
MaxIdleTime == 4500   \* last instant of the clock of SpecIdle (ms)

FineTick == \E d \in FineSteps : Advance(d, MaxIdleTime)

NextIdle ==
  \/ EnvControl(1, FALSE) \/ Click(1, FALSE)
  \/ FlushTimer(1, FALSE) \/ IdleTimer(1, FALSE)
  \/ FineTick

SpecIdle == PageInitState /\ [][NextIdle]_vars

\* ---------------------------------------------------------------------
\* SpecCoord: the coordinator driven by the popup and by messages of page
\* contexts that are not part of the specification.
\* ---------------------------------------------------------------------

\* The tab that sends message number n: the tabs take turns.
Sender(n) == 1 + (n % NumTabs)

\* A fragment of tab t sent as message number n: one click, or no record.
EnvFragment(t, sid, withClick, n) ==
  [ type |-> "telemetry", tab |-> t, sessionId |-> sid, segmentId |-> 1,
    timestamp |-> n, isSegmentEnd |-> ~withClick, mouse |-> <<>>,
    clicks |-> IF withClick THEN << [id |-> n, t |-> n, dt_since_last |-> NoTime] >>
               ELSE <<>>,
    keystrokes |-> <<>>, scroll |-> <<>> ]

PopupMessages ==
  { [type |-> x] : x \in {"popup_start", "popup_stop", "popup_export", "popup_clear",
                          "popup_get_status"} }

PageMessages ==
  LET n == hist.inputs + 1
  IN  { EnvFragment(Sender(n), 1, w, n) : w \in BOOLEAN }
        \cup { [type |-> "page_meta", tab |-> Sender(n), sessionId |-> 1, timestamp |-> n],
               [type |-> "content_ready", tab |-> Sender(n)] }

EnvSends ==
  /\ \E msg \in PopupMessages \cup PageMessages : BgReceives(msg, 1)
  /\ UNCHANGED pageVars

\* No message of the coordinator waits for a tab: the tabs of this
\* specification handle a message as soon as it is sent.
TabsIdle == \A t \in Tabs : toPage[t] = <<>>

\* A tab handles the oldest message sent to it.
TabTakes ==
  \E t \in Tabs :
    /\ toPage[t] # <<>>
    /\ toPage' = [toPage EXCEPT ![t] = Tail(@)]
    /\ UNCHANGED <<pageVars, bg, mirror, sessions, writeQueue, tasks, localWait,
                   sessionWait, nextUuid, download, hist>>

CoordInit ==
  /\ clock = 0 /\ nextId = 0 /\ page = [t \in Tabs |-> PageInit]
  /\ toBg = <<>> /\ sent = [t \in Tabs |-> SentInit]
  /\ BgInitState

NextCoord ==
  \/ TabsIdle /\ EnvSends
  \/ TabsIdle /\ StartWrite
  \/ TabsIdle /\ LocalAnswers
  \/ TabsIdle /\ SessionAnswers
  \/ TabsIdle /\ TabsAnswer
  \/ TabsIdle /\ Crash
  \/ TabTakes

SpecCoord == CoordInit /\ [][NextCoord]_vars

\* ---------------------------------------------------------------------
\* SpecQueue: the write queue of one process fed by begin-recording requests,
\* fragments and page metadata. Both storage areas answer every call in the
\* end, and a function chained on the queue is run once the promise before it
\* has settled.
\* ---------------------------------------------------------------------
MaxFed == 4           \* messages and write failures before the last message of SpecQueue

QueueMessages ==
  LET n == hist.inputs + 1
  IN  { [type |-> "popup_start"], EnvFragment(Sender(n), 1, TRUE, n),
        [type |-> "page_meta", tab |-> Sender(n), sessionId |-> 1, timestamp |-> n] }

\* The operations chained on the queue and the handlers that may still chain one.
Pending ==
  Len(writeQueue) + Cardinality({k \in DOMAIN tasks : tasks[k].pc \in {"restore", "start_set"}})

\* A message arrives while the queue has room for what it may chain.
QueueFed ==
  /\ Pending < MaxQueue /\ hist.inputs < MaxFed
  /\ \E msg \in QueueMessages : BgReceives(msg, 1)
  /\ UNCHANGED pageVars

NextQueue ==
  \/ TabsIdle /\ QueueFed
  \/ TabsIdle /\ StartWrite
  \/ TabsIdle /\ LocalAnswers
  \/ TabsIdle /\ SessionAnswers
  \/ TabsIdle /\ TabsAnswer
  \/ TabTakes

SpecQueue ==
  /\ CoordInit /\ [][NextQueue]_vars
  /\ WF_vars(StartWrite) /\ WF_vars(LocalAnswers) /\ WF_vars(SessionAnswers)
  /\ WF_vars(TabTakes)

\* ---------------------------------------------------------------------
\* SpecExport: the export applied to a stored fragment list. The browser was
\* restarted after a session was recorded: chrome.storage.session is empty,
\* chrome.storage.local holds the session with its fragments.
\* ---------------------------------------------------------------------
SegmentIds == {4, 5}

\* The fragment stored at place i: two mouse samples, a click, a scroll and,
\* unless it is terminal, a key record.
StoredFragment(i, id, isSegmentEnd) ==
  [ segmentId |-> id, tabId |-> 1, timestamp |-> 1000 * i,
    isSegmentEnd |-> isSegmentEnd,
    mouse |-> << [id |-> 10 * i, t |-> 10 * i], [id |-> 10 * i + 1, t |-> 10 * i + 1] >>,
    clicks |-> << [id |-> 10 * i + 2, t |-> 10 * i + 2, dt_since_last |-> NoTime] >>,
    keystrokes |-> IF isSegmentEnd THEN <<>>
                   ELSE << [id |-> 10 * i + 3, field |-> "body", type |-> "down",
                            t |-> 10 * i + 3, dt_since_last |-> NoTime,
                            key |-> "Enter"] >>,
    scroll |-> << [id |-> 10 * i + 4, t |-> 10 * i + 4, dt_since_last |-> NoTime] >> ]

ExportInit ==
  /\ clock = 0 /\ nextId = 0 /\ page = [t \in Tabs |-> PageInit]
  /\ toBg = <<>> /\ sent = [t \in Tabs |-> SentInit]
  /\ bg = BgInit /\ mirror = MirrorInit
  /\ \E n \in 0..MaxStored :
       \E ids \in [1..n -> SegmentIds], ends \in [1..n -> BOOLEAN] :
         sessions = << [ segments |-> [i \in 1..n |-> StoredFragment(i, ids[i], ends[i])],
                         pageMeta |-> <<>> ] >>
  /\ writeQueue = <<>>
  /\ tasks = [k \in 1..MaxTasks |->
                IF k = 1 THEN [pc |-> "restore", msg |-> [type |-> "boot"],
                               snap |-> MirrorInit]
                ELSE FreeTask]
  /\ localWait = <<>> /\ sessionWait = << <<"task", 1>> >>
  /\ toPage = [t \in Tabs |-> <<>>]
  /\ nextUuid = 1
  /\ download = NoDownload
  /\ hist = HistInit

PopupAsks ==
  /\ \E x \in {"popup_export", "popup_get_status"} : BgReceives([type |-> x], 1)
  /\ UNCHANGED pageVars

NextExport == PopupAsks \/ LocalAnswers \/ SessionAnswers

SpecExport == ExportInit /\ [][NextExport]_vars

\* ---------------------------------------------------------------------
\* SpecSystem: page contexts and coordinator together. The content script of
\* tab 1 was injected SystemLoadAge ms ago; the one of the other tabs was
\* orphaned by an earlier reload of the extension. The user clicks and types;
\* the popup begins and ends recording and exports.
\* ---------------------------------------------------------------------
SystemLoadAge == 5000

SystemInit ==
  /\ clock = 0 /\ nextId = 0
  /\ page = [t \in Tabs |-> IF t = 1 THEN PageLoaded(SystemLoadAge)
                            ELSE [PageLoaded(SystemLoadAge) EXCEPT !.runtime = "gone"]]
  /\ toBg = <<>>
  /\ sent = [t \in Tabs |-> SentInit]
  /\ BgInitState

\* The content script of tab t handles the oldest message sent to the tab; a
\* message to an invalidated context is lost.
PageTakes(t) ==
  /\ toPage[t] # <<>>
  /\ Apply(t, IF page[t].runtime = "ok"
              THEN PageOnMessage(page[t], t, Head(toPage[t]), clock)
              ELSE Result(page[t], <<>>, <<>>), TRUE)
  /\ toPage' = [toPage EXCEPT ![t] = Tail(@)]
  /\ UNCHANGED <<clock, nextId, bg, mirror, sessions, writeQueue, tasks, localWait,
                 sessionWait, nextUuid, download, hist>>

\* The coordinator handles the oldest message of the page contexts.
BgTakes ==
  /\ toBg # <<>>
  /\ BgReceives(Head(toBg), 0)
  /\ toBg' = Tail(toBg)
  /\ UNCHANGED <<clock, nextId, page, sent>>

PopupControls ==
  /\ hist.inputs < MaxControls
  /\ \E x \in {"popup_start", "popup_stop", "popup_export"} : BgReceives([type |-> x], 1)
  /\ UNCHANGED pageVars

UserActs(t) ==
  \/ nextId < MaxTyped /\ KeyDown(t, TRUE)
  \/ nextId < MaxTyped /\ KeyUp(t, TRUE)
  \/ FlushTimer(t, TRUE) \/ IdleTimer(t, TRUE)

NextSystem ==
  \/ \E t \in Tabs : UserActs(t)
  \/ \E t \in Tabs : PageTakes(t)
  \/ Tick
  \/ BgTakes \/ PopupControls
  \/ StartWrite \/ LocalAnswers \/ SessionAnswers \/ TabsAnswer

SpecSystem == SystemInit /\ [][NextSystem]_vars

\* ---------------------------------------------------------------------
\* SpecReady: the coordinator and the content scripts of all tabs, with a page
\* in tab 1 that is loaded anew while the popup begins and ends recording; the
\* content script of the other tabs was orphaned by an earlier reload of the
\* extension. No user input and no timer: only the control messages travel.
\* ---------------------------------------------------------------------
MaxReady == 4         \* page loads, popup requests and write failures of SpecReady
MaxLoads == 2         \* a page is loaded as one of the first MaxLoads of them

ReadyInit ==
  /\ clock = 0 /\ nextId = 0
  /\ page = [t \in Tabs |-> IF t = 1 THEN PageInit ELSE [PageInit EXCEPT !.runtime = "gone"]]
  /\ toBg = <<>>
  /\ sent = [t \in Tabs |-> SentInit]
  /\ BgInitState

\* Tab t navigates: a new content script is injected in place of the old one
\* and announces itself, content.js 443-448. (A tab is not loaded again while
\* a message of or for its content script is under way.)
PageLoads(t) ==
  /\ Len(toBg) < MaxChan
  /\ \A i \in DOMAIN toBg : toBg[i].tab # t
  /\ toPage[t] = <<>>
  /\ page' = [page EXCEPT ![t] = PageInit]
  /\ sent' = [sent EXCEPT ![t] = SentInit]
  /\ toBg' = Append(toBg, [type |-> "content_ready", tab |-> t])
  /\ hist.inputs < MaxLoads
  /\ hist' = [hist EXCEPT !.inputs = @ + 1]
  /\ UNCHANGED <<clock, nextId, bg, mirror, sessions, writeQueue, tasks, localWait,
                 sessionWait, toPage, nextUuid, download>>

ReadyControls ==
  /\ hist.inputs < MaxReady
  /\ \E x \in {"popup_start", "popup_stop"} : BgReceives([type |-> x], 1)
  /\ UNCHANGED pageVars

NextReady ==
  \/ PageLoads(1)
  \/ \E t \in Tabs : PageTakes(t)
  \/ BgTakes \/ ReadyControls
  \/ StartWrite \/ LocalAnswers \/ SessionAnswers \/ TabsAnswer

SpecReady == ReadyInit /\ [][NextReady]_vars

\* The steps of SpecReady that the program takes by itself.
ReadyRuns ==
  \/ \E t \in Tabs : PageTakes(t)
  \/ BgTakes \/ StartWrite \/ LocalAnswers \/ SessionAnswers \/ TabsAnswer

\* SpecReady in which the event loops of the service worker and of the pages do
\* not stop while a message is to be handled or a call of chrome.storage or
\* chrome.tabs is to be answered. (Page loads and popup requests are bounded, so
\* every behaviour comes to rest, and it rests only where nothing is left to do.)
SpecReadyFair == ReadyInit /\ [][NextReady]_vars /\ WF_vars(ReadyRuns)
\* =====================================================================
\* Properties of the page context (checked under SpecPage)
\* =====================================================================

StopMsg == [type |-> "stop_recording"]
StatusMsg == [type |-> "get_status"]

BufferIds(c) ==
  {c.mouseBuffer[i].id : i \in DOMAIN c.mouseBuffer}
    \cup {c.clickBuffer[i].id : i \in DOMAIN c.clickBuffer}
    \cup {c.keystrokeBuffer[i].id : i \in DOMAIN c.keystrokeBuffer}
    \cup {c.scrollBuffer[i].id : i \in DOMAIN c.scrollBuffer}

Ids(buf) == {buf[i].id : i \in DOMAIN buf}

\* C2: a page context that is recording and handles stop_recording emits one
\* fragment flagged terminal that carries every record held in its four buffers.
C2_StopEmitsTerminalFragment ==
  \A t \in Tabs :
    (page[t].recording /\ page[t].runtime = "ok") =>
      LET fr == Fragments(PageOnMessage(page[t], t, StopMsg, clock).out)
      IN  /\ Len(fr) = 1
          /\ fr[1].isSegmentEnd
          /\ fr[1].mouse = page[t].mouseBuffer
          /\ fr[1].clicks = page[t].clickBuffer
          /\ fr[1].keystrokes = page[t].keystrokeBuffer
          /\ fr[1].scroll = page[t].scrollBuffer

\* A flush that builds a payload splits each buffer into the payload's part
\* followed by what it leaves behind, with no record in both; a flush that
\* builds none leaves the buffers alone.
SplitsBuffers(c, f) ==
  IF f.built = <<>>
  THEN /\ f.c.mouseBuffer = c.mouseBuffer /\ f.c.clickBuffer = c.clickBuffer
       /\ f.c.keystrokeBuffer = c.keystrokeBuffer /\ f.c.scrollBuffer = c.scrollBuffer
  ELSE LET m == f.built[1]
       IN  /\ m.mouse \o f.c.mouseBuffer = c.mouseBuffer
           /\ m.clicks \o f.c.clickBuffer = c.clickBuffer
           /\ m.keystrokes \o f.c.keystrokeBuffer = c.keystrokeBuffer
           /\ m.scroll \o f.c.scrollBuffer = c.scrollBuffer
           /\ RecordIds(m) \cap BufferIds(f.c) = {}

\* C3: every flush of a page context, periodic or terminal, splits each buffer
\* into payload and remainder (disjoint, together the buffer before the flush);
\* no record is sent in two fragments: the fragments sent so far hold as many
\* records as there are distinct records among them, none of them still buffered.
C3_DrainIsAtomic ==
  \A t \in Tabs :
    /\ \A isSegmentEnd \in BOOLEAN :
          SplitsBuffers(page[t], FlushBuffers(page[t], t, isSegmentEnd, clock))
    /\ Cardinality(sent[t].ids) = sent[t].records
    /\ sent[t].ids \cap BufferIds(page[t]) = {}

\* A fragment with a record has been sent and a later record is buffered.
C3_Witness ==
  /\ sent[1].records >= 1
  /\ page[1].recording /\ ~Empty(page[1])

\* C4: within one run of a page context the segment ids of the fragments it
\* sends never decrease, a fragment sent after a terminal fragment of segment k
\* has an id above k, and a wake from Idle raises the segment id by exactly one.
C4_SegmentIdsAdvance ==
  [][ \A t \in Tabs :
        page'[t].runs = page[t].runs =>
          /\ sent'[t].n # sent[t].n =>
                /\ sent'[t].lastSeg >= sent[t].lastSeg
                /\ sent'[t].lastSeg > sent[t].lastEnd
          /\ (page[t].recording /\ page[t].isIdle
                /\ page'[t].recording /\ ~page'[t].isIdle) =>
                page'[t].segmentId = page[t].segmentId + 1
          /\ page'[t].segmentId # page[t].segmentId =>
                (page[t].isIdle /\ ~page'[t].isIdle) ]_vars

\* Two fragments of one run have been sent, the second for segment 2 (the
\* first ended segment 1).
C4_Witness == sent[1].n >= 2 /\ sent[1].lastSeg = 2 /\ page[1].recording

NotAppended(before, after) == Len(after) <= Len(before) /\ Ids(after) \subseteq Ids(before)

\* C10: once a page context has stopped, no record is appended to any of its
\* buffers until the next start_recording, and its reply to a status request
\* reports recording = false.
C10_StoppedPageIsSilent ==
  /\ [](\A t \in Tabs :
          (~page[t].recording /\ page[t].runs > 0 /\ page[t].runtime = "ok") =>
             LET reply == PageOnMessage(page[t], t, StatusMsg, clock).out
             IN  Len(reply) = 1 /\ reply[1].recording = FALSE)
  /\ [][ \A t \in Tabs :
           ~page'[t].recording =>
              /\ NotAppended(page[t].mouseBuffer, page'[t].mouseBuffer)
              /\ NotAppended(page[t].clickBuffer, page'[t].clickBuffer)
              /\ NotAppended(page[t].keystrokeBuffer, page'[t].keystrokeBuffer)
              /\ NotAppended(page[t].scrollBuffer, page'[t].scrollBuffer) ]_vars

\* A page context stopped right after an idle transition, with a pointer
\* position known and a sampling timer still live.
C10_Witness ==
  /\ ~page[1].recording /\ page[1].runs > 0 /\ page[1].runtime = "ok"
  /\ page[1].isIdle /\ page[1].lastMouseEvent /\ page[1].mouseTimers > 0


\* =====================================================================
\* Properties of the coordinator (checked under SpecCoord)
\* =====================================================================

\* Timestamps of the fragments stored for session s, in list order
StoredStamps(s) ==
  IF s \in DOMAIN sessions
  THEN [i \in DOMAIN sessions[s].segments |-> sessions[s].segments[i].timestamp]
  ELSE <<>>

\* Recording has been on for the one session begun so far, no Store write has
\* failed, the Store was not cleared and the process was not destroyed.
OneSessionOn ==
  /\ bg.recording /\ nextUuid = 1
  /\ ~hist.failed /\ ~hist.cleared /\ hist.crashes = 0

\* C1: while recording stays on for one session and no Store write fails, once
\* the write queue has drained the stored fragment list of the session holds
\* exactly the fragments with records that were delivered, one entry each, in
\* the order of delivery.
C1_NoLostUpdate ==
  (OneSessionOn /\ writeQueue = <<>>) => StoredStamps(1) = hist.accepted[1]

\* Two tabs delivered fragments whose writes were pending together, and the
\* queue has drained.
C1_Witness ==
  /\ OneSessionOn /\ writeQueue = <<>> /\ hist.contended
  /\ Len(hist.accepted[1]) >= 2
  /\ sessions[1].segments[1].tabId # sessions[1].segments[2].tabId

NoData == [success |-> FALSE, error |-> "No data to export"]

\* C8: after a clear-data has completed that was requested while no
\* begin-recording was in progress, and as long as no fragment, no
\* page-metadata message and no begin-recording request has come since it was
\* requested, a status query returns zero counters and a zero segment count
\* and an export returns the 'no data' failure.
C8_ClearLeavesNothing ==
  hist.clear = "done" =>
    /\ StatusReply(bg).totalEvents = ZeroTotals
    /\ StatusReply(bg).segmentCount = 0
    /\ ExportData(sessions) = NoData

\* C9: when a process is destroyed after it has finished handling a message,
\* with no Store write left in its queue, and the recreated process has loaded
\* its state, the recording flag, session id, counters and segment count are
\* those the destroyed process had in memory.
C9_RestoreEqualsMemory ==
  [][ (hist.crashes > 0 /\ hist.quiet /\ ~bg.stateRestored /\ bg'.stateRestored) =>
        /\ bg'.recording = hist.preCrash.recording
        /\ bg'.sessionId = hist.preCrash.sessionId
        /\ bg'.totalEvents = hist.preCrash.totalEvents
        /\ bg'.segmentCount = hist.preCrash.segmentCount ]_vars

\* The fragments of session s that the export of the Store puts into its
\* consolidated segment o: those whose records o holds.
PartOf(o, f) == RecordIds(f) \subseteq RecordIds(o)

\* C7: in the export of the Store no consolidated segment holds fragments of
\* two pages, and the fragments of one page with one segment id are all in the
\* same consolidated segment.
C7_ExportKeepsPagesApart ==
  \A s \in DOMAIN sessions :
    LET segs == sessions[s].segments
        out == ExportData(sessions).data[s].segments
    IN  \A i, j \in DOMAIN segs :
          /\ segs[i].tabId # segs[j].tabId =>
               ~\E k \in DOMAIN out : PartOf(out[k], segs[i]) /\ PartOf(out[k], segs[j])
          /\ (segs[i].tabId = segs[j].tabId /\ segs[i].segmentId = segs[j].segmentId) =>
               \E k \in DOMAIN out : PartOf(out[k], segs[i]) /\ PartOf(out[k], segs[j])

\* =====================================================================
\* Properties of the export (checked under SpecExport)
\* =====================================================================

\* Places of the stored list where a run of equal segment ids begins
RunStarts(segs) ==
  {i \in DOMAIN segs : i = 1 \/ segs[i].segmentId # segs[i - 1].segmentId}

\* The place where run number k begins, and the place where the run that
\* begins at a ends
RunStart(segs, k) ==
  CHOOSE a \in RunStarts(segs) : Cardinality({x \in RunStarts(segs) : x <= a}) = k

RunEnd(segs, a) ==
  CHOOSE b \in a..Len(segs) :
    /\ \A j \in a..b : segs[j].segmentId = segs[a].segmentId
    /\ b = Len(segs) \/ segs[b + 1].segmentId # segs[a].segmentId

\* Buffer buf of the fragments at places a..b, one after the other
RECURSIVE Joined(_, _, _, _)
Joined(segs, buf, a, b) ==
  IF a > b THEN <<>> ELSE segs[a][buf] \o Joined(segs, buf, a + 1, b)

\* C6: what an export hands over holds, for the stored fragment list of the
\* session, one consolidated segment per maximal run of consecutive fragments
\* with equal segment id, in list order; its buffers are the run's buffers
\* joined in list order, its start time is the timestamp of the run's first
\* fragment and its end time that of the last.
C6_OneSegmentPerRun ==
  download.success =>
    LET segs == sessions[1].segments
        out == download.data[1].segments
    IN  /\ Len(out) = Cardinality(RunStarts(segs))
        /\ download.data[1].totalSegments = Len(out)
        /\ \A k \in DOMAIN out :
             LET a == RunStart(segs, k)
                 b == RunEnd(segs, a)
             IN  /\ out[k].segmentId = segs[a].segmentId
                 /\ out[k].startTime = segs[a].timestamp
                 /\ out[k].endTime = segs[b].timestamp
                 /\ \A buf \in {"mouse", "clicks", "keystrokes", "scroll"} :
                      out[k][buf] = Joined(segs, buf, a, b)

\* Fragments with ids 4, 4, 5 were exported as two segments, the first with
\* the four mouse samples of the two fragments of id 4.
C6_Witness ==
  /\ download.success
  /\ [i \in DOMAIN sessions[1].segments |-> sessions[1].segments[i].segmentId]
       = <<4, 4, 5>>
  /\ Len(download.data[1].segments) = 2
  /\ Len(download.data[1].segments[1].mouse) = 4

\* =====================================================================
\* Properties of pages and coordinator together (checked under SpecSystem)
\* =====================================================================

KeysLogged(buf) ==
  \A i \in DOMAIN buf : buf[i].key \in LOGGABLE_KEYS \cup {NullKey}

\* C5: the key field of every key record is an allow-listed key name or null,
\* in the buffers of the pages, in the fragments on their way to the
\* coordinator, in the queued writes, in the Store and in what an export hands
\* over.
C5_KeysAreRedacted ==
  /\ \A t \in Tabs : KeysLogged(page[t].keystrokeBuffer)
  /\ \A i \in DOMAIN toBg :
       toBg[i].type = "telemetry" => KeysLogged(toBg[i].keystrokes)
  /\ \A k \in DOMAIN tasks :
       (tasks[k].pc = "restore" /\ tasks[k].msg.type = "telemetry") =>
         KeysLogged(tasks[k].msg.keystrokes)
  /\ \A i \in DOMAIN writeQueue :
       writeQueue[i].kind = "segment" => KeysLogged(writeQueue[i].data.keystrokes)
  /\ \A s \in DOMAIN sessions : \A i \in DOMAIN sessions[s].segments :
       KeysLogged(sessions[s].segments[i].keystrokes)
  /\ download.success =>
       \A s \in DOMAIN download.data : \A i \in DOMAIN download.data[s].segments :
         KeysLogged(download.data[s].segments[i].keystrokes)

\* A key typed into the email field was captured, delivered, stored and
\* exported, with a null key.
C5_Witness ==
  /\ download.success
  /\ \E s \in DOMAIN download.data : \E i \in DOMAIN download.data[s].segments :
       \E j \in DOMAIN download.data[s].segments[i].keystrokes :
         LET r == download.data[s].segments[i].keystrokes[j]
         IN  r.field = "email" /\ r.key = NullKey

\* ---------------------------------------------------------------------
\* C11. A recording page context whose newest interaction was handled at time
\* t, with nothing but timers and status queries after it, is idle at every
\* time later than t + 3000 ms: its status reply has isIdle = true, exactly one
\* terminal fragment was emitted since t, and the segment id is the one it had
\* at t. (SpecIdle has no visibility change; a stop ends the recording.)
C11_IdleAfterThreshold ==
  \A t \in Tabs :
    LET c == page[t]
        reply == ContentStatus(c, t)
    IN  (c.recording /\ sent[t].seg # 0
           /\ clock > c.lastInteractionTime + IDLE_THRESHOLD_MS)
          => /\ \A i \in DOMAIN reply : reply[i].isIdle
             /\ sent[t].ends = 1
             /\ c.segmentId = sent[t].seg

\* ---------------------------------------------------------------------
\* C12. Every click record a page context buffers has dt_since_last = null
\* when no click was recorded before it in its segment (the first click after
\* a start or after an idle wake), and otherwise its timestamp minus the
\* timestamp of the click recorded before it in the same segment.
C12_ClickDelta ==
  [][ \A t \in Tabs :
        \A r \in { c \in NewClicks(page'[t]) : nextId' = nextId + 1 } :
          r.dt_since_last =
            IF sent[t].clickSeg = page'[t].segmentId /\ page'[t].runs = page[t].runs
            THEN r.t - sent[t].clickT
            ELSE NoTime ]_vars

\* Two clicks 250 ms apart are buffered in one segment.
C12_Witness ==
  LET b == page[1].clickBuffer
  IN  Len(b) = 2 /\ b[1].dt_since_last = NoTime /\ b[2].dt_since_last = 250

\* The page context is Stopped: flag off, listeners detached, no timer left.
Stopped(c) ==
  /\ ~c.recording /\ ~c.listeners
  /\ ~c.mouseIntervalId /\ ~c.flushIntervalId /\ ~c.idleCheckIntervalId
  /\ c.mouseTimers = 0

\* ---------------------------------------------------------------------
\* C13. Whenever a flush of a recording page context builds a fragment and
\* cannot deliver it (the extension runtime is gone, or the send raises), the
\* page context is Stopped when the flush returns.
C13_UndeliveredFlushStops ==
  \A t \in Tabs :
    \A isSegmentEnd \in BOOLEAN :
      LET f == FlushBuffers(page[t], t, isSegmentEnd, clock)
      IN  (f.built # <<>> /\ Fragments(f.out) = <<>>) => Stopped(f.c)

\* =====================================================================
\* Properties of the coordinator
\* =====================================================================

\* The handler left memory, both storage areas, the write queue, the handlers
\* in progress and the messages to the page contexts as they are.
NothingChanged(n) ==
  /\ n.bg = bg /\ n.mirror = mirror /\ n.sessions = sessions /\ n.q = writeQueue
  /\ n.tasks = tasks /\ n.lw = localWait /\ n.sw = sessionWait
  /\ n.toPage = toPage /\ n.uuid = nextUuid /\ n.dl = download

\* ---------------------------------------------------------------------
\* C14. A begin-recording request handled while the recording flag is on
\* changes nothing (session id, counters, Store, no message to a page
\* context), and so does an end-recording request handled while it is off.
C14_IdempotentControl ==
  \A k \in 1..MaxTasks :
    (tasks[k].pc = "free" /\ bg.stateRestored) =>
      /\ bg.recording => NothingChanged(OnMessage(Cur, k, [type |-> "popup_start"]))
      /\ ~bg.recording => NothingChanged(OnMessage(Cur, k, [type |-> "popup_stop"]))

\* Recording is on, a fragment has been counted and stored, and a handler slot
\* is free to take the request.
C14_Witness ==
  /\ bg.recording /\ bg.stateRestored /\ tasks[1].pc = "free"
  /\ bg.totalEvents.clicks > 0
  /\ bg.sessionId \in DOMAIN sessions
  /\ sessions[bg.sessionId].segments # <<>>

\* The operation with identity id is chained on the queue q.
Holds(q, id) == \E i \in DOMAIN q : q[i].id = id

InQueue(id) == Holds(writeQueue, id)

\* How far a queued operation has got.
Stage(pc) ==
  CASE pc = "queued" -> 0 [] pc = "get" -> 1 [] pc \in {"set", "rejected"} -> 2
    [] OTHER -> 3

\* ---------------------------------------------------------------------
\* C15. A failed Store operation does not stop the queue: an operation is
\* never taken back to an earlier stage (neither the failed one nor one behind
\* it runs twice), an operation leaves the queue only after it was started,
\* the operations keep their enqueue order, and every operation chained on
\* the queue, behind a failed one or not, is finished in the end.
C15_QueueSurvivesFailure ==
  /\ [][ \A i \in DOMAIN writeQueue :
           LET op == writeQueue[i]
           IN  IF Holds(writeQueue', op.id)
               THEN LET j == OpAt(writeQueue', op.id)
                    IN  /\ Stage(writeQueue'[j].pc) >= Stage(op.pc)
                        /\ op.pc = "rejected" => writeQueue'[j].pc = "rejected"
                        /\ \A i2 \in DOMAIN writeQueue :
                              (i2 < i /\ Holds(writeQueue', writeQueue[i2].id)) =>
                                 OpAt(writeQueue', writeQueue[i2].id) < j
               ELSE /\ op.pc # "queued"
                    /\ \A i2 \in DOMAIN writeQueue :
                          i2 < i => ~Holds(writeQueue', writeQueue[i2].id) ]_vars
  /\ \A id \in 1..MaxQueue : InQueue(id) ~> ~InQueue(id)

\* A fragment write was rejected and the fragment delivered after it is stored.
C15_Witness ==
  /\ hist.failed /\ writeQueue = <<>>
  /\ Len(hist.accepted[1]) = 2
  /\ StoredStamps(1) = << hist.accepted[1][2] >>

\* The stored session x ends with the data of the queued operation op.
EndsWith(store, x, op) ==
  /\ x \in DOMAIN store
  /\ LET list == IF op.kind = "segment" THEN store[x].segments ELSE store[x].pageMeta
     IN  list # <<>> /\ list[Len(list)] = op.data

\* ---------------------------------------------------------------------
\* C16. When the queued write of a fragment or page-metadata message that
\* carries session id S writes back, its data is appended to no stored session
\* but S, and if S is not in the Store it had read, the Store stays as it is.
C16_AppendedToCarriedSession ==
  [][ \A i \in DOMAIN writeQueue :
        LET op == writeQueue[i]
        IN  ( /\ op.pc = "get" /\ op.kind \in {"segment", "meta"}
              /\ ~(Holds(writeQueue', op.id) /\ writeQueue'[OpAt(writeQueue', op.id)].pc = "get")
              /\ hist'.crashes = hist.crashes )
            => /\ \A x \in DOMAIN sessions' :
                     (sessions' # sessions /\ EndsWith(sessions', x, op)) => x = op.carried
               /\ op.carried \notin DOMAIN op.snap => sessions' = sessions ]_vars

\* ---------------------------------------------------------------------
\* C17. Within one process lifetime the load of the persisted state takes
\* effect at most once: when the answer to a further chrome.storage.session.get
\* of restoreState is applied in a process whose state has been restored, the
\* recording flag, the session id and the counters in memory stay as they are.
C17_RestoreOnce ==
  [][ \A k \in DOMAIN tasks :
        ( /\ tasks[k].pc = "restore" /\ tasks'[k] # tasks[k]
          /\ hist'.crashes = hist.crashes
          /\ bg.stateRestored )
        => RestoreState(bg, tasks[k].snap) = bg ]_vars

\* ---------------------------------------------------------------------
\* C18. At most one operation of the write queue is between its read of the
\* sessions map and the end of its write-back, and the operations start in
\* enqueue order: every operation behind the oldest unfinished one has not
\* started.
C18_OneWriterInOrder ==
  \A i \in DOMAIN writeQueue : i > 1 => writeQueue[i].pc = "queued"

\* An operation has read the sessions map and is writing it back while the
\* operation enqueued after it waits.
C18_Witness ==
  /\ Len(writeQueue) = 2
  /\ writeQueue[1].pc = "set" /\ writeQueue[1].kind = "segment"
  /\ writeQueue[2].kind = "segment"

\* ---------------------------------------------------------------------
\* C19. A fragment with a record that arrives for a session that is in the
\* Store is counted in the in-memory counters at once and its write is chained
\* on the write queue, whether the recording flag is on or off. (While the
\* begin-recording that creates the session is in progress no page context
\* has been given the session id yet.)
C19_FragmentsAlwaysTaken ==
  \A k \in DOMAIN tasks :
    \A t \in Tabs :
      LET msg == EnvFragment(t, bg.sessionId, TRUE, hist.inputs + 1)
          n == OnMessage(Cur, k, msg)
      IN  ( /\ tasks[k].pc = "free" /\ bg.stateRestored
            /\ bg.sessionId \in DOMAIN sessions
            /\ \A j \in DOMAIN tasks : tasks[j].pc \notin {"start_set", "start_write"} )
          => /\ n.bg.totalEvents.clicks = bg.totalEvents.clicks + 1
             /\ Len(n.q) = Len(writeQueue) + 1
             /\ n.q[Len(n.q)].kind = "segment"
             /\ n.q[Len(n.q)].data = Segment(msg)

\* ---------------------------------------------------------------------
\* C20. A page context has exactly one pointer-sampling timer scheduled while
\* it is Active (recording and not idle) and none while it is Idle or Stopped.
C20_OneSamplerWhileActive ==
  \A t \in Tabs :
    page[t].mouseTimers = IF page[t].recording /\ ~page[t].isIdle THEN 1 ELSE 0

\* =====================================================================
\* Further properties of the page context
\* =====================================================================

\* ---------------------------------------------------------------------
\* C21. While the page is hidden no record is appended to a buffer of its
\* page context: a handler that runs with document.hidden true, and leaves it
\* true, puts no new record into any of the four buffers.
C21_HiddenPageBuffersNothing ==
  [][ \A t \in Tabs :
        (page[t].hidden /\ page'[t].hidden) =>
           BufferIds(page'[t]) \subseteq BufferIds(page[t]) ]_vars

\* How many of the page_meta messages a page context has sent carry session s.
MetaCount(h, s) == Cardinality({i \in DOMAIN h.metas : h.metas[i] = s})

\* ---------------------------------------------------------------------
\* C22. A page context sends exactly one page_meta message per session, on
\* its Stopped-to-Active transition, however often start_recording for the
\* session is delivered, and a start_recording that arrives while it records
\* changes nothing in it.
C22_OnePageMetaPerSession ==
  \A t \in Tabs :
    /\ \A s \in 1..MaxSessions : MetaCount(sent[t], s) <= 1
    /\ (page[t].recording /\ page[t].runtime = "ok") =>
          /\ MetaCount(sent[t], page[t].sessionId) = 1
          /\ \A s \in 1..MaxSessions :
                PageOnMessage(page[t], t, [type |-> "start_recording", sessionId |-> s],
                              clock) = Result(page[t], <<>>, <<>>)

\* A content_ready message of tab t is on its way to the coordinator or held by
\* a handler that restores the state first.
ReadyWaits(t) ==
  \/ \E i \in DOMAIN toBg : toBg[i].type = "content_ready" /\ toBg[i].tab = t
  \/ \E k \in 1..MaxTasks :
        /\ tasks[k].pc = "restore" /\ tasks[k].msg.type = "content_ready"
        /\ tasks[k].msg.tab = t

\* The content script of tab t runs and has not recorded since it was loaded.
Fresh(t) ==
  page[t].runtime = "ok" /\ ~page[t].recording /\ sent[t].metas = <<>>

\* The page context of tab t records for the session the coordinator is in.
ActiveCurrent(t) ==
  page[t].recording /\ bg.recording /\ page[t].sessionId = bg.sessionId

\* ---------------------------------------------------------------------
\* C23. When the coordinator runs the content_ready case for tab t with its
\* recording flag on, it sends tab t one start_recording with its current
\* session id, and with the flag off it sends nothing to any tab; and a page
\* context whose content_ready is under way while recording is on, and which
\* has not recorded since it was loaded, becomes Active with the coordinator's
\* session id in the end, unless recording is ended before.
C23_ReadyReplay ==
  /\ [][ \A t \in Tabs :
           ( \/ /\ toBg # <<>> /\ Head(toBg).type = "content_ready" /\ Head(toBg).tab = t
                /\ toBg' = Tail(toBg) /\ bg.stateRestored
             \/ \E k \in 1..MaxTasks :
                   /\ tasks[k].pc = "restore" /\ tasks[k].msg.type = "content_ready"
                   /\ tasks[k].msg.tab = t /\ tasks'[k].pc # "restore" )
           => IF bg'.recording
              THEN toPage' = [toPage EXCEPT ![t] =
                                Append(@, [type |-> "start_recording",
                                           sessionId |-> bg'.sessionId, from |-> 0])]
              ELSE toPage' = toPage ]_vars
  /\ \A t \in Tabs :
        (ReadyWaits(t) /\ bg.recording /\ Fresh(t))
           ~> (ActiveCurrent(t) \/ ~bg.recording)

\* The state in which the idle check finds a page context that handled
\* start_recording in state c at instant now and no event since.
Started(c, t, now) ==
  PageOnMessage(c, t, [type |-> "start_recording", sessionId |-> 1], now).c

\* ---------------------------------------------------------------------
\* C24. The idle check never turns a page context Idle sooner than
\* IDLE_THRESHOLD_MS after the later of its start_recording and its last
\* qualifying interaction: a check that turns a recording page Idle finds the
\* last interaction at least that old, and the checks that run one and two
\* timer periods after a start_recording, with no event in between, leave the
\* page Active.
C24_NoIdleBeforeThreshold ==
  \A t \in Tabs :
    /\ (page[t].recording /\ ~page[t].isIdle /\ CheckIdle(page[t], t, clock).c.isIdle)
          => clock - page[t].lastInteractionTime >= IDLE_THRESHOLD_MS
    /\ (~page[t].recording /\ page[t].runtime = "ok") =>
          \A k \in 1..(IDLE_THRESHOLD_MS \div TIMER_PERIOD_MS) :
             k * TIMER_PERIOD_MS < IDLE_THRESHOLD_MS =>
                ~CheckIdle(Started(page[t], t, clock), t, clock + k * TIMER_PERIOD_MS).c.isIdle

\* Handler k is inside startNewSession(): it has drawn a session id and awaits
\* chrome.storage.session.set or the queued creation of the Store entry.
CreatesSession(k) == tasks[k].pc \in {"start_set", "start_write"}

\* ---------------------------------------------------------------------
\* C25. Two begin-recording requests whose handling overlaps create one
\* session: no session id is drawn while another handler is creating a session,
\* and when a handler has created its session, the id it is about to send to the
\* page contexts is the session id in memory and in the persisted mirror and,
\* unless a write was rejected or the Store cleared, the id of an entry of the
\* Store.
C25_OverlappingBeginsOneSession ==
  [][ /\ nextUuid' # nextUuid => \A k \in 1..MaxTasks : ~CreatesSession(k)
      /\ \A k \in 1..MaxTasks :
           (tasks[k].pc = "start_write" /\ tasks'[k].pc = "query") =>
              /\ tasks'[k].out.sessionId = bg'.sessionId
              /\ tasks'[k].out.sessionId = mirror'.sessionId
              /\ (~hist'.failed /\ ~hist'.cleared) =>
                    tasks'[k].out.sessionId \in DOMAIN sessions' ]_vars

\* No handler of the coordinator is in progress, no message to a page context
\* is under way and no page context is waiting for the answer to content_ready.
BroadcastsDone ==
  /\ \A k \in 1..MaxTasks : tasks[k].pc = "free"
  /\ \A t \in Tabs : toPage[t] = <<>> /\ ~ReadyWaits(t)

\* ---------------------------------------------------------------------
\* C26. Once the begin-recording and end-recording operations have finished
\* and every message they sent has been handled, the recording flag of every
\* page context that can be reached equals the recording flag of the
\* coordinator.
C26_FlagsAgreeAtRest ==
  BroadcastsDone =>
    \A t \in Tabs : page[t].runtime = "ok" => page[t].recording = bg.recording

\* The fragments stored for the session the coordinator is in.
CurrentFragments ==
  IF bg.sessionId \in DOMAIN sessions THEN sessions[bg.sessionId].segments ELSE <<>>

RECURSIVE Records(_, _, _)
\* The number of records of one kind in the first n fragments of list.
Records(list, kind, n) ==
  IF n = 0 THEN 0 ELSE Len(list[n][kind]) + Records(list, kind, n - 1)

\* ---------------------------------------------------------------------
\* C27. Whenever the write queue is empty (and the state is restored, the
\* process was never destroyed and no handler is in the middle of its work),
\* after any sequence of begin, fragment, failed write, clear and end
\* operations, the four event counters of the
\* coordinator equal the numbers of records of each kind in the fragments
\* stored for the current session, and its segment count equals the length of
\* that session's stored fragment list.
C27_CountersMatchStore ==
  ( /\ writeQueue = <<>> /\ bg.stateRestored /\ hist.crashes = 0
    /\ \A k \in 1..MaxTasks : tasks[k].pc = "free" )
  => /\ \A kind \in DOMAIN bg.totalEvents :
          bg.totalEvents[kind] = Records(CurrentFragments, kind, Len(CurrentFragments))
     /\ bg.segmentCount = Len(CurrentFragments)

\* ---------------------------------------------------------------------
\* C28. Whenever a recording page context is Idle, its four buffers are empty:
\* the terminal flush that ended the segment has drained them and nothing is
\* appended before the wake, so the reset of the buffers at the start of the
\* next segment discards no record.
C28_IdleBuffersEmpty ==
  \A t \in Tabs : (page[t].recording /\ page[t].isIdle) => Empty(page[t])

\* A page context is Idle for the second time in a run, after it has sent
\* records: it was woken by an interaction and its segment was ended again.
C28_Witness ==
  \E t \in Tabs :
    /\ page[t].recording /\ page[t].isIdle /\ page[t].segmentId = 2
    /\ sent[t].records > 0 /\ sent[t].lastEnd = 2

====
